---- MODULE Spec2Model ----
(***************************************************************************)
(* A model of pentomino.py: a genetic algorithm that searches for a        *)
(* pentomino tiling of an m x n board.                                     *)
(*                                                                         *)
(* A bitstring is a sequence of bits (0 or 1, for the characters "0" and   *)
(* "1"); Python's 0-based indices are kept in every value the program      *)
(* computes (rows, columns, parent indices, cut points) and shifted by one *)
(* only where a TLA+ sequence is read.  Floating-point scores are kept as  *)
(* exact rationals over the common denominator Scale.                      *)
(***************************************************************************)
EXTENDS Integers, Sequences, FiniteSets, TLC

VARIABLES
    m, n, k, g,     \* main's arguments: columns, rows, population size, generations
    c,              \* main's generation counter
    pc,             \* where main is
    bitstrings,     \* Pentomino.bitstrings
    population,     \* Pentomino.population: grids of Nodes
    scores, sm,     \* main's scores and their sum
    children,       \* main's children list
    npairs,         \* iterations done of main's selection/crossover loop
    parents,        \* the last result of selection
    xs,             \* the two draws x of the last selection call
    hits,           \* the positions whose draw in mutation was below the rate
    out,            \* what print_pentomino printed last
    err,            \* the exception that ended the run and its place, or "none"
    penalty,        \* numerator of the penalty passed to fitness
    start, count    \* argument and result of the last bfs call

vars == <<m, n, k, g, c, pc, bitstrings, population, scores, sm, children,
          npairs, parents, xs, hits, out, err, penalty, start, count>>

----------------------------------------------------------------------------
(* Program constants *)

\* The area of a pentomino, the 5 of bitsize and of fitness.
PieceArea == 5

\* main calls fitness(.2): the penalty is PenaltyNum / PenaltyDen.
PenaltyNum == 1
PenaltyDen == 5

\* main calls mutation(.05): the rate in percent.
MutationRate == 5

\* main reports when c % 10 == 0.
ReportEvery == 10

\* Pentomino.reps, the glyphs of print_pentomino.
reps == <<"~", "*", "$", "^", "#", "@", ">", "<">>

\* Python's None where a Node is expected: no Node has a negative row.
None == [r |-> -1, c |-> -1, value |-> <<>>, neighbors |-> <<>>]

----------------------------------------------------------------------------
(* Bounds of the model *)

MaxK == 4           \* population sizes 0..MaxK
MaxWideK == 2       \* population sizes 0..MaxWideK on the boards of WideBoards
MaxG == 11          \* the largest generation budget
MaxPenaltyNum == 2  \* penalties 1/5 .. MaxPenaltyNum/5 for fitness as a function
MaxSelLen == 3      \* score sequences of length 1..MaxSelLen for selection
MaxScoreVal == 2    \* scores -MaxScoreVal..MaxScoreVal for selection

----------------------------------------------------------------------------
(* Arithmetic helpers *)

Abs(x) == IF x < 0 THEN -x ELSE x

RECURSIVE SeqSum(_)
SeqSum(s) == IF s = <<>> THEN 0 ELSE Head(s) + SeqSum(Tail(s))

\* A common multiple of every number of distinct identifiers a candidate of
\* the boards below can show (1..16): lcm(1..16).
Lcm == 16 * 9 * 5 * 7 * 11 * 13

\* Scores are kept as integers: a score s of the program is s * Scale here.
Scale == PieceArea * PenaltyDen * Lcm

----------------------------------------------------------------------------
(* Encoding *)

\* ceil(log((m * n) / 5, 2)): the least w with 5 * 2^w >= m * n (m * n >= 5).
RECURSIVE BitsFrom(_, _)
BitsFrom(area, w) ==
    IF PieceArea * (2 ^ w) >= area THEN w ELSE BitsFrom(area, w + 1)

bitsize(mm, nn) == BitsFrom(mm * nn, 0)

\* bstring[i:j], a Python slice with 0 <= i, clipped at the end of the string.
Slice(s, i, j) ==
    LET hi == IF j > Len(s) THEN Len(s) ELSE j
    IN  IF i >= hi THEN <<>> ELSE SubSeq(s, i + 1, hi)

\* The "populate" loop of set_population (and of __init__) for one bitstring:
\* the grid of Nodes, row by row, neighbor lists still empty.
Populate(bstring, mm, nn) ==
    LET bsize == bitsize(mm, nn)
    IN  [r \in 1..nn |->
            [cc \in 1..mm |->
                LET i == ((r - 1) * mm + (cc - 1)) * bsize
                IN  [r |-> r - 1, c |-> cc - 1,
                     value |-> Slice(bstring, i, i + bsize),
                     neighbors |-> <<>>]]]

\* get_node on one grid: the node at row, col, or None outside the board.
get_node(grid, mm, nn, row, col) ==
    IF row >= 0 /\ col >= 0 /\ row < nn /\ col < mm
    THEN grid[row + 1][col + 1]
    ELSE None

\* One test of the "set up neighbors" loop: the neighbor is appended when it
\* exists and holds the same value.  A neighbor is kept as its coordinates.
Linked(grid, mm, nn, r, cc, nr, ncol) ==
    LET other == get_node(grid, mm, nn, nr, ncol)
    IN  IF other # None /\ other.value = grid[r + 1][cc + 1].value
        THEN <<(<<nr, ncol>>)>>
        ELSE <<>>

\* Neighbors with the test of the right neighbor left out.
Neighbors_noRight(grid, mm, nn, r, cc) ==
    Linked(grid, mm, nn, r, cc, r - 1, cc) \o
    Linked(grid, mm, nn, r, cc, r + 1, cc) \o
    Linked(grid, mm, nn, r, cc, r, cc - 1)

\* The neighbor list of node (r, cc): above, below, left, right, in that order.
Neighbors(grid, mm, nn, r, cc) ==
    Linked(grid, mm, nn, r, cc, r - 1, cc) \o
    Linked(grid, mm, nn, r, cc, r + 1, cc) \o
    Linked(grid, mm, nn, r, cc, r, cc - 1) \o
    Linked(grid, mm, nn, r, cc, r, cc + 1)

\* One grid, populated and with its neighbor lists filled.
BuildGrid(bstring, mm, nn) ==
    LET grid == Populate(bstring, mm, nn)
    IN  [r \in 1..nn |->
            [cc \in 1..mm |->
                [grid[r][cc] EXCEPT
                    !.neighbors = Neighbors(grid, mm, nn, r - 1, cc - 1)]]]

\* set_population: one grid per bitstring.
set_population(bs, mm, nn) ==
    [i \in 1..Len(bs) |-> BuildGrid(bs[i], mm, nn)]

----------------------------------------------------------------------------
(* Connectivity *)

\* Node.__eq__ compares r, c and value.
NodeKey(node) == <<node.r, node.c, node.value>>

InList(x, lst) == \E i \in 1..Len(lst) : lst[i] = x

\* The for loop of bfs over one node's neighbors.
RECURSIVE BfsNeighbors(_, _, _, _, _)
BfsNeighbors(grid, nbrs, q, visited, cnt) ==
    IF nbrs = <<>> THEN [q |-> q, visited |-> visited, cnt |-> cnt]
    ELSE LET nb == grid[Head(nbrs)[1] + 1][Head(nbrs)[2] + 1]
         IN  IF ~InList(NodeKey(nb), visited)
             THEN BfsNeighbors(grid, Tail(nbrs), Append(q, nb),
                               Append(visited, NodeKey(nb)), cnt + 1)
             ELSE BfsNeighbors(grid, Tail(nbrs), q, visited, cnt)

\* The while loop of bfs.
RECURSIVE BfsLoop(_, _, _, _)
BfsLoop(grid, q, visited, cnt) ==
    IF q = <<>> THEN cnt
    ELSE LET s == Head(q)
             step == BfsNeighbors(grid, s.neighbors, Tail(q), visited, cnt)
         IN  BfsLoop(grid, step.q, step.visited, step.cnt)

bfs(grid, node) == BfsLoop(grid, <<node>>, <<NodeKey(node)>>, 1)

----------------------------------------------------------------------------
(* Fitness *)

\* A dict d with d[key] = val set.
DictSet(d, key, val) == (key :> val) @@ d

EmptyDict == <<>>

RECURSIVE DictSum(_, _)
DictSum(d, keys) ==
    IF keys = {} THEN 0
    ELSE LET x == CHOOSE y \in keys : TRUE
         IN  d[x] + DictSum(d, keys \ {x})

\* The body of fitness's loops over r and c for one node: connected_counts
\* keeps, per value, the bfs count closest to 5 (the first one on a tie) and
\* total_counts the number of nodes.
CountNode(grid, node, dicts) ==
    LET cnt == bfs(grid, node)
        cc == dicts.connected_counts
        tc == dicts.total_counts
    IN  [connected_counts |->
            IF node.value \in DOMAIN cc
            THEN IF Abs(cnt - PieceArea) < Abs(cc[node.value] - PieceArea)
                 THEN DictSet(cc, node.value, cnt)
                 ELSE cc
            ELSE DictSet(cc, node.value, cnt),
         total_counts |->
            IF node.value \in DOMAIN tc
            THEN DictSet(tc, node.value, tc[node.value] + 1)
            ELSE DictSet(tc, node.value, 1)]

\* fitness's loops over r and c, from the i-th node in row-major order on.
\* (The test on next only makes TLC evaluate the dicts node by node: a node
\* counted leaves total_counts with an entry.)
RECURSIVE CountFrom(_, _, _, _, _)
CountFrom(grid, mm, nn, i, dicts) ==
    IF i >= mm * nn THEN dicts
    ELSE LET next == CountNode(grid, grid[(i \div mm) + 1][(i % mm) + 1], dicts)
         IN  IF DOMAIN next.total_counts = {} THEN next
             ELSE CountFrom(grid, mm, nn, i + 1, next)

Counts(grid, mm, nn) ==
    CountFrom(grid, mm, nn, 0,
              [connected_counts |-> EmptyDict, total_counts |-> EmptyDict])

\* PieceArea times the sum of 1 - abs(5 - x)/5 over a dict's values.
TermSum(d) ==
    DictSum([x \in DOMAIN d |-> PieceArea - Abs(PieceArea - d[x])], DOMAIN d)

\* Score with the count term summed over connected_counts.
Score_countOverConnected(grid, mm, nn, pn) ==
    LET dicts == Counts(grid, mm, nn)
        smc == TermSum(dicts.connected_counts)
        smt == TermSum(dicts.connected_counts)
    IN  (PenaltyDen * smc) * (Lcm \div Cardinality(DOMAIN dicts.connected_counts))
        + (pn * smt) * (Lcm \div Cardinality(DOMAIN dicts.total_counts))

\* The score fitness appends for one grid, times Scale:
\* avgc + penalty * avgt with penalty = pn / PenaltyDen.
Score(grid, mm, nn, pn) ==
    LET dicts == Counts(grid, mm, nn)
        smc == TermSum(dicts.connected_counts)
        smt == TermSum(dicts.total_counts)
    IN  (PenaltyDen * smc) * (Lcm \div Cardinality(DOMAIN dicts.connected_counts))
        + (pn * smt) * (Lcm \div Cardinality(DOMAIN dicts.total_counts))

\* fitness(penalty): the scores of population[0..k-1], or IndexError when the
\* population holds fewer than k grids.
fitness(pop, mm, nn, kk, pn) ==
    IF Len(pop) < kk
    THEN [err |-> "IndexError", scores |-> <<>>]
    ELSE [err |-> "none",
          scores |-> [i \in 1..kk |-> Score(pop[i], mm, nn, pn)]]

----------------------------------------------------------------------------
(* Selection, crossover, mutation *)

\* What the walk yields when it reads scores[score] past the last index.
IndexError == -1

\* Walk with the index advanced after every score added.
RECURSIVE Walk_alwaysAdvance(_, _, _, _)
Walk_alwaysAdvance(scs, x, sc, score) ==
    IF ~(sc < x) THEN score
    ELSE IF score >= Len(scs) THEN IndexError
    ELSE Walk_alwaysAdvance(scs, x, sc + scs[score + 1], score + 1)

\* The while loop of selection for one draw x, from running sum sc and index
\* score on: the index it ends at.
RECURSIVE Walk(_, _, _, _)

Walk(scs, x, sc, score) ==
    IF ~(sc < x) THEN score
    ELSE IF score >= Len(scs) THEN IndexError
    ELSE LET sc2 == sc + scs[score + 1]
         IN  Walk(scs, x, sc2, IF ~(sc2 >= x) THEN score + 1 ELSE score)

\* selection(scores, max_score) with its two draws x1 and x2.
selection(scs, x1, x2) == <<Walk(scs, x1, 0, 0), Walk(scs, x2, 0, 0)>>

\* InDrawRange for x = random.random() * abs(max_score).
InDrawRange_abs(x, max_score) ==
    IF max_score = 0 THEN x = 0 ELSE 0 <= x /\ x < Abs(max_score)

\* x = random.random() * max_score with random.random() in [0, 1).
InDrawRange(x, max_score) ==
    IF max_score > 0 THEN 0 <= x /\ x < max_score
    ELSE IF max_score = 0 THEN x = 0
    ELSE max_score < x /\ x <= 0

\* The running sums of the scores.
Prefix(scs, i) == SeqSum(SubSeq(scs, 1, i))

\* Draws that stand for every draw of the range: the walk compares x only
\* with running sums, so each running sum, the values next to it and 0 are
\* tried.
Draws(scs, max_score) ==
    {x \in {0} \cup UNION {{Prefix(scs, i) - 1, Prefix(scs, i), Prefix(scs, i) + 1} :
                           i \in 1..Len(scs)} :
        InDrawRange(x, max_score)}

\* crossover with dad's bit at the cut point left out of the first child.
crossover_dropBit(bs, prnts, loc) ==
    LET mom == bs[prnts[1] + 1]
        dad == bs[prnts[2] + 1]
    IN  <<Slice(mom, 0, loc) \o Slice(dad, loc + 1, Len(dad)),
          Slice(dad, 0, loc) \o Slice(mom, loc, Len(mom))>>

\* crossover(parents) with its cut point loc = random.randint(0, len(mom)).
crossover(bs, prnts, loc) ==
    LET mom == bs[prnts[1] + 1]
        dad == bs[prnts[2] + 1]
    IN  <<Slice(mom, 0, loc) \o Slice(dad, loc, Len(dad)),
          Slice(dad, 0, loc) \o Slice(mom, loc, Len(mom))>>

\* The value mutation's loop variable b ends with for the i-th bitstring:
\* every position whose draw was below the rate flipped.
Flipped(b, i, hit) ==
    [j \in 1..Len(b) |-> IF <<i, j - 1>> \in hit THEN 1 - b[j] ELSE b[j]]

\* mutation(mutation_rate): the loop assigns the flipped string to its own
\* variable b and never stores it, so self.bitstrings is what it was.
mutation(bs, hit) ==
    LET b == [i \in 1..Len(bs) |-> Flipped(bs[i], i - 1, hit)]
    IN  bs

AllPositions(bs) ==
    {<<i - 1, j - 1>> : i \in 1..Len(bs), j \in 1..(IF bs = <<>> THEN 0 ELSE Len(bs[1]))}

\* The sets of positions the draws of one mutation call can put below the
\* rate (in percent): none, all, or the first bit of the first bitstring.
HitChoices(bs, rate) ==
    {h \in {{}, AllPositions(bs), AllPositions(bs) \cap {<<0, 0>>}} :
        /\ rate <= 0 => h = {}
        /\ rate >= 100 => h = AllPositions(bs)}

----------------------------------------------------------------------------
(* Rendering *)

\* The first loop of print_pentomino: the distinct chunks from position i on,
\* in the order they are first met.  (The test on next only makes TLC
\* evaluate the list chunk by chunk: it is never empty.)
RECURSIVE Pents(_, _, _, _)
Pents(bitstring, bsz, i, pents) ==
    IF ~(i < Len(bitstring)) THEN pents
    ELSE LET idx == Slice(bitstring, i, i + bsz)
             next == IF ~InList(idx, pents) THEN Append(pents, idx) ELSE pents
         IN  IF next = <<>> THEN next
             ELSE Pents(bitstring, bsz, i + bsz, next)

\* pents.index(idx), 0-based.
IndexOf(lst, x) == (CHOOSE i \in 1..Len(lst) : lst[i] = x /\ \A j \in 1..(i - 1) : lst[j] # x) - 1

\* The second loop of print_pentomino: a glyph per chunk and a line break
\* after every mm-th; IndexError when a chunk's index is no index of reps.
\* (The test on Len(printed), never true, only makes TLC evaluate the output
\* glyph by glyph.)
RECURSIVE PrintFrom(_, _, _, _, _, _)
PrintFrom(bitstring, bsz, mm, pents, i, printed) ==
    IF ~(i < Len(bitstring)) \/ Len(printed) < 0
    THEN [err |-> "none", out |-> printed]
    ELSE LET idx == Slice(bitstring, i, i + bsz)
             at == IndexOf(pents, idx)
             i2 == i + bsz
         IN  IF at >= Len(reps)
             THEN [err |-> "IndexError", out |-> printed]
             ELSE PrintFrom(bitstring, bsz, mm, pents, i2,
                            IF (i2 \div bsz) % mm = 0 /\ i2 # 0
                            THEN printed \o <<reps[at + 1], "\n">>
                            ELSE Append(printed, reps[at + 1]))

print_pentomino(bitstring, mm, nn) ==
    LET bsz == Len(bitstring) \div (mm * nn)
    IN  PrintFrom(bitstring, bsz, mm, Pents(bitstring, bsz, 0, <<>>), 0, <<>>)

\* scores.index(max(scores)), 0-based.
BestIndex(scs) ==
    IndexOf(scs, CHOOSE s \in {scs[i] : i \in 1..Len(scs)} :
                     \A i \in 1..Len(scs) : scs[i] <= s)

----------------------------------------------------------------------------
(* Inputs *)

\* The bit at position b (0-based, most significant first) of identifier v
\* written with w bits.
ChunkBit(v, w, b) == (v \div (2 ^ (w - 1 - b))) % 2

\* The bitstring of a board whose i-th cell (row-major, 0-based) holds the
\* identifier id[i].
Encode(id, cells, w) ==
    [j \in 1..(cells * w) |-> ChunkBit(id[(j - 1) \div w], w, (j - 1) % w)]

FlipLast(b) == [j \in 1..Len(b) |-> IF j = Len(b) THEN 1 - b[j] ELSE b[j]]

\* The boards main is run on: m columns, n rows, with 0, 1 and 2 bits per
\* cell.
Boards == {<<5, 1>>, <<2, 5>>, <<5, 3>>}

\* A board with 4 bits per cell: a candidate can show 16 identifiers.
WideBoards == {<<9, 5>>}

\* The generation budgets main is run with: none, one that ends the loop at
\* once, one generation, and MaxG.
Budgets == {0, 1, 2, MaxG}

\* Bitstrings init_random_representation(m, n) can return, of its 2^(w*m*n):
\* with fewer than 4 bits per cell the board of one identifier, else the board
\* whose i-th cell holds identifier i mod 2^w; and each with its last bit
\* flipped.
init_random_representation(mm, nn) ==
    LET w == bitsize(mm, nn)
        base == Encode([i \in 0..(mm * nn - 1) |-> IF w < 4 THEN 0 ELSE i % (2 ^ w)],
                       mm * nn, w)
    IN  {base, FlipLast(base)}

\* Boards fitness and bfs are applied to as functions.
FitBoards == {<<5, 1>>, <<2, 5>>, <<5, 2>>, <<5, 3>>}

\* Rows of mm cells: the first mm - 1 hold identifier a, the last holds b.
RowPatterns(mm, w) ==
    {[i \in 0..(mm - 1) |-> IF i < mm - 1 THEN ab[1] ELSE ab[2]] :
        ab \in (0..(2 ^ w - 1)) \X (0..(2 ^ w - 1))}

\* The bitstrings fitness and bfs are applied to: every bitstring of the
\* board when a cell has at most one bit, else every board made of the rows
\* of RowPatterns.
FitInputs(mm, nn) ==
    LET w == bitsize(mm, nn)
    IN  IF w <= 1
        THEN [1..(w * mm * nn) -> {0, 1}]
        ELSE {Encode([i \in 0..(mm * nn - 1) |-> rows[(i \div mm) + 1][i % mm]],
                     mm * nn, w) :
                 rows \in [1..nn -> RowPatterns(mm, w)]}

----------------------------------------------------------------------------
(* main *)

\* while (c < g)
LoopTest(cc, gg) == IF cc < gg THEN "Evaluate" ELSE "Done"

\* p = Pentomino(m, n, k); c = 1
Start(boards, kmax) ==
    /\ \E board \in boards : m = board[1] /\ n = board[2]
    /\ k \in 0..kmax
    /\ g \in Budgets
    /\ bitstrings \in [1..k -> init_random_representation(m, n)]
    /\ population = set_population(bitstrings, m, n)
    /\ c = 1
    /\ pc = LoopTest(1, g)
    /\ scores = <<>> /\ sm = 0
    /\ children = <<>> /\ npairs = 0
    /\ parents = <<>> /\ xs = <<>>
    /\ hits = {}
    /\ out = <<>>
    /\ err = "none"
    /\ penalty = PenaltyNum
    /\ start = <<>> /\ count = 0

Init == Start(Boards, MaxK)

InitWide == Start(WideBoards, MaxWideK)

\* scores = p.fitness(.2) and the sum sm; the report is due when c % 10 == 0.
Evaluate ==
    /\ pc = "Evaluate"
    /\ LET res == fitness(population, m, n, k, penalty)
       IN  IF res.err # "none"
           THEN /\ err' = "IndexError: fitness"
                /\ pc' = "Crashed"
                /\ UNCHANGED <<scores, sm>>
           ELSE /\ scores' = res.scores
                /\ sm' = SeqSum(res.scores)
                /\ pc' = IF c % ReportEvery = 0 THEN "Report" ELSE "Reproduce"
                /\ err' = err
    /\ UNCHANGED <<m, n, k, g, c, bitstrings, population, children, npairs,
                   parents, xs, hits, out, penalty, start, count>>

\* The report: max(scores) raises ValueError on an empty list; the best
\* candidate's bitstring is printed.
Report ==
    /\ pc = "Report"
    /\ IF scores = <<>>
       THEN /\ err' = "ValueError: max"
            /\ pc' = "Crashed"
            /\ out' = out
       ELSE LET res == print_pentomino(bitstrings[BestIndex(scores) + 1], m, n)
            IN  /\ out' = res.out
                /\ err' = IF res.err = "none" THEN err
                          ELSE "IndexError: print_pentomino"
                /\ pc' = IF res.err = "none" THEN "Reproduce" ELSE "Crashed"
    /\ UNCHANGED <<m, n, k, g, c, bitstrings, population, scores, sm, children,
                   npairs, parents, xs, hits, penalty, start, count>>

\* The results selection can return for the draws of Draws.
Selections(scs, max_score) ==
    {selection(scs, x[1], x[2]) : x \in Draws(scs, max_score) \X Draws(scs, max_score)}

\* The results crossover can return for the cut points 0..len(mom).
Crossovers(bs, prnts) ==
    {crossover(bs, prnts, loc) : loc \in 0..Len(bs[prnts[1] + 1])}

\* One iteration of the loop over range(0, int(k/2)), the first one starting
\* from children = []: selection, then crossover.
ReproducePair ==
    /\ pc = "Reproduce"
    /\ npairs < k \div 2
    /\ \E sel \in Selections(scores, sm) :
          IF IndexError \in {sel[1], sel[2]}
          THEN /\ err' = "IndexError: selection"
               /\ pc' = "Crashed"
               /\ UNCHANGED <<children, npairs, parents>>
          ELSE /\ parents' = sel
               /\ \E pair \in Crossovers(bitstrings, sel) :
                     children' = (IF npairs = 0 THEN <<>> ELSE children) \o pair
               /\ npairs' = npairs + 1
               /\ UNCHANGED <<err, pc>>
    /\ UNCHANGED <<m, n, k, g, c, bitstrings, population, scores, sm, xs, hits,
                   out, penalty, start, count>>

\* The loop is over (its variable parents is dead): p.bitstrings = children.
ReproduceDone ==
    /\ pc = "Reproduce"
    /\ npairs = k \div 2
    /\ children' = (IF npairs = 0 THEN <<>> ELSE children)
    /\ bitstrings' = children'
    /\ npairs' = 0
    /\ parents' = <<>>
    /\ pc' = "Mutate"
    /\ UNCHANGED <<m, n, k, g, c, population, scores, sm, xs, hits,
                   out, err, penalty, start, count>>

\* p.mutation(.05)
Mutate ==
    /\ pc = "Mutate"
    /\ \E h \in HitChoices(bitstrings, MutationRate) :
          /\ hits' = h
          /\ bitstrings' = mutation(bitstrings, h)
    /\ pc' = "Rebuild"
    /\ UNCHANGED <<m, n, k, g, c, population, scores, sm, children, npairs,
                   parents, xs, out, err, penalty, start, count>>

\* p.set_population(children); c += 1; the loop test.  mutation has
\* returned: its draws are gone.
Rebuild ==
    /\ pc = "Rebuild"
    /\ hits' = {}
    /\ population' = set_population(children, m, n)
    /\ c' = c + 1
    /\ pc' = LoopTest(c + 1, g)
    /\ UNCHANGED <<m, n, k, g, bitstrings, scores, sm, children, npairs,
                   parents, xs, out, err, penalty, start, count>>

Next ==
    \/ Evaluate
    \/ Report
    \/ ReproducePair
    \/ ReproduceDone
    \/ Mutate
    \/ Rebuild

Spec == Init /\ [][Next]_vars

\* main on the boards of WideBoards.
SpecWide == InitWide /\ [][Next]_vars

----------------------------------------------------------------------------
(* fitness and bfs as functions of one candidate *)

InitFit ==
    /\ \E board \in FitBoards : m = board[1] /\ n = board[2]
    /\ k = 1
    /\ g = 0
    /\ \E b \in FitInputs(m, n) : bitstrings = <<b>>
    /\ population = set_population(bitstrings, m, n)
    /\ c = 1
    /\ pc = "Fit"
    /\ scores = <<>> /\ sm = 0
    /\ children = <<>> /\ npairs = 0
    /\ parents = <<>> /\ xs = <<>>
    /\ hits = {}
    /\ out = <<>>
    /\ err = "none"
    /\ penalty = PenaltyNum
    /\ start = <<>> /\ count = 0

\* scores = p.fitness(penalty) for a penalty pn / PenaltyDen > 0.
FitnessCall ==
    /\ pc = "Fit"
    /\ \E pn \in 1..MaxPenaltyNum :
          /\ penalty' = pn
          /\ scores' = fitness(population, m, n, k, pn).scores
    /\ sm' = SeqSum(scores')
    /\ pc' = "Scored"
    /\ UNCHANGED <<m, n, k, g, c, bitstrings, population, children, npairs,
                   parents, xs, hits, out, err, start, count>>

\* count = p.bfs(node) for a node of the grid.
BfsCall ==
    /\ pc = "Fit"
    /\ \E r \in 0..(n - 1), col \in 0..(m - 1) :
          /\ start' = <<r, col>>
          /\ count' = bfs(population[1], population[1][r + 1][col + 1])
    /\ pc' = "Counted"
    /\ UNCHANGED <<m, n, k, g, c, bitstrings, population, scores, sm, children,
                   npairs, parents, xs, hits, out, err, penalty>>

NextFit ==
    \/ FitnessCall
    \/ BfsCall

SpecFit == InitFit /\ [][NextFit]_vars

----------------------------------------------------------------------------
(* selection as a function of the scores *)

\* Scores in half units, so that the odd draws stand for the draws between
\* two running sums.
SelScores ==
    UNION {[1..len -> {2 * v : v \in (-MaxScoreVal)..MaxScoreVal}] :
              len \in 1..MaxSelLen}

\* Every draw of the range, in the units of the scores.
AllDraws(max_score) ==
    {x \in (-Abs(max_score))..Abs(max_score) : InDrawRange(x, max_score)}

InitSel ==
    /\ m = 0 /\ n = 0 /\ g = 0 /\ c = 1
    /\ scores \in SelScores
    /\ k = Len(scores)
    /\ sm = SeqSum(scores)
    /\ bitstrings = <<>> /\ population = <<>>
    /\ pc = "Select"
    /\ children = <<>> /\ npairs = 0
    /\ parents = <<>> /\ xs = <<>>
    /\ hits = {}
    /\ out = <<>>
    /\ err = "none"
    /\ penalty = PenaltyNum
    /\ start = <<>> /\ count = 0

\* parents = p.selection(scores, sm)
SelectionCall ==
    /\ pc = "Select"
    /\ \E x1 \in AllDraws(sm), x2 \in AllDraws(sm) :
          /\ xs' = <<x1, x2>>
          /\ parents' = selection(scores, x1, x2)
    /\ err' = IF IndexError \in {parents'[1], parents'[2]}
              THEN "IndexError: selection" ELSE err
    /\ pc' = "Selected"
    /\ UNCHANGED <<m, n, k, g, c, bitstrings, population, scores, sm, children,
                   npairs, hits, out, penalty, start, count>>

NextSel == SelectionCall

SpecSel == InitSel /\ [][NextSel]_vars

----------------------------------------------------------------------------
(* Regions of a board, read off the bitstring *)

Cells(mm, nn) == (0..(nn - 1)) \X (0..(mm - 1))

\* The identifier of cell (r, cc): the w bits at the cell's place in
\* row-major order.
CellValue(b, mm, nn, cell) ==
    LET w == bitsize(mm, nn)
        at == (cell[1] * mm + cell[2]) * w
    IN  [j \in 1..w |-> b[at + j]]

Adjacent(p, q) ==
    \/ p[1] = q[1] /\ Abs(p[2] - q[2]) = 1
    \/ p[2] = q[2] /\ Abs(p[1] - q[1]) = 1

\* The least set holding S and closed under stepping to a 4-adjacent cell of
\* the same identifier.
RECURSIVE Closure(_, _, _, _)
Closure(b, mm, nn, S) ==
    LET S2 == S \cup {q \in Cells(mm, nn) :
                        \E p \in S : /\ Adjacent(p, q)
                                     /\ CellValue(b, mm, nn, p) = CellValue(b, mm, nn, q)}
    IN  IF S2 = S THEN S ELSE Closure(b, mm, nn, S2)

\* The maximal 4-connected region of cells sharing the identifier of cell.
Region(b, mm, nn, cell) == Closure(b, mm, nn, {cell})

\* Every identifier on the board occupies exactly 5 cells that form one
\* region.
ValidTiling(b, mm, nn) ==
    \A cell \in Cells(mm, nn) :
        LET R == Region(b, mm, nn, cell)
        IN  /\ Cardinality(R) = PieceArea
            /\ R = {q \in Cells(mm, nn) :
                      CellValue(b, mm, nn, q) = CellValue(b, mm, nn, cell)}

\* The score 1 + penalty, times Scale.
PerfectScore(pn) == PieceArea * Lcm * (PenaltyDen + pn)

----------------------------------------------------------------------------
(* Claims *)

\* C8: for every grid and every start cell, bfs returns the number of cells
\* of the maximal 4-connected region of cells sharing the start cell's
\* identifier, a number from 1 to m * n.
C8_BfsCountsRegion ==
    pc = "Counted" =>
        /\ count = Cardinality(Region(bitstrings[1], m, n, start))
        /\ 1 <= count /\ count <= m * n

\* C8's case: a start cell in a region of 5 cells on the 2 x 5 board that is
\* not a straight line.
C8_Witness ==
    /\ pc = "Counted"
    /\ m = 2 /\ n = 5
    /\ bitstrings[1] = <<1, 1, 1, 1, 1, 0, 0, 0, 0, 0>>
    /\ start = <<2, 0>>
    /\ count = 5

Concentrated(scs, j) ==
    /\ scs[j] > 0
    /\ \A i \in 1..Len(scs) : i # j => scs[i] = 0

\* C4 as stated: with one candidate's score the whole total and the others
\* zero, both parents are that candidate for every draw in [0, totalScore),
\* 0 included, wherever the candidate is.
C4_ConcentrationEveryDraw ==
    pc = "Selected" =>
        \A j \in 1..Len(scores) :
            Concentrated(scores, j) => parents = <<j - 1, j - 1>>

\* C4 amended: with one candidate's score the whole total and the others
\* zero, a parent is that candidate for every draw x with 0 < x < totalScore,
\* and is index 0 for the draw x = 0, wherever the candidate is.
C4_ConcentrationPositiveDraw ==
    pc = "Selected" =>
        \A j \in 1..Len(scores) :
            Concentrated(scores, j) =>
                \A d \in 1..2 : parents[d] = IF xs[d] > 0 THEN j - 1 ELSE 0

\* C4's case: the candidate is the third, one draw is positive and the other
\* is 0.
C4_Witness ==
    /\ pc = "Selected"
    /\ Len(scores) = 3 /\ Concentrated(scores, 3)
    /\ xs[1] > 0 /\ xs[2] = 0
    /\ parents = <<2, 0>>

\* C9: for scores of any signs with max_score their sum and any draw
\* x = u * max_score, u in [0, 1), each walk of selection ends at an index
\* in 0..k-1 and reads no score past the last index.
C9_WalkStaysInRange ==
    pc = "Selected" =>
        /\ err = "none"
        /\ \A d \in 1..2 : parents[d] \in 0..(k - 1)

\* C9's case: scores of both signs, and a walk that runs over a negative
\* score to the last index.
C9_Witness ==
    /\ pc = "Selected"
    /\ k >= 3
    /\ scores[1] > 0 /\ scores[2] < 0
    /\ parents[1] = k - 1
    /\ err = "none"

\* C1: after mutation every stored bitstring equals its value before
\* mutation (the child main collected) with exactly the bits flipped whose
\* draw was below the rate.
C1_MutationFlipsStoredBits ==
    pc = "Rebuild" =>
        /\ Len(bitstrings) = Len(children)
        /\ \A i \in 1..Len(bitstrings) :
              bitstrings[i] = Flipped(children[i], i - 1, hits)

\* The board is valid: m * n is a positive multiple of 5.
ValidBoard == m * n > 0 /\ (m * n) % PieceArea = 0

\* C2: for even k on a valid board, at the Evaluate step of every generation
\* bitstrings has k entries of length w * m * n and population has k grids
\* of n rows by m columns; the children crossover yields have that length
\* for every cut point.
C2_PopulationKeepsItsShape ==
    (k % 2 = 0 /\ ValidBoard) =>
        /\ pc = "Evaluate" =>
              /\ Len(bitstrings) = k
              /\ \A i \in 1..Len(bitstrings) :
                    Len(bitstrings[i]) = bitsize(m, n) * m * n
              /\ Len(population) = k
              /\ \A i \in 1..Len(population) :
                    /\ DOMAIN population[i] = 1..n
                    /\ \A r \in 1..n : DOMAIN population[i][r] = 1..m
        /\ \A i \in 1..Len(children) : Len(children[i]) = bitsize(m, n) * m * n

\* C2's case: a generation produced by reproduction, with two pairs of
\* children of one bit per cell from different parents, at its Evaluate step.
C2_Witness ==
    /\ pc = "Evaluate"
    /\ c > 1
    /\ k = 4
    /\ bitsize(m, n) = 1
    /\ Len(children) = 4
    /\ children[1] # children[2]

\* C5: when the total fitness is not positive, reproduction does not go on
\* with parents taken from the walk: it ends in SelectionDegenerate.
C5_DegenerateSelectionIsFlagged ==
    (sm <= 0 /\ parents # <<>>) => err = "SelectionDegenerate"

\* C6: a run with an odd k does not fail inside Evaluate by indexing a
\* candidate that does not exist (it was rejected before any generation).
C6_OddPopulationNeverIndexesPastEnd ==
    k % 2 = 1 => ~(pc = "Crashed" /\ err = "IndexError: fitness")

\* C7, for populations of at least two: with g >= 1, an even k and a valid
\* board, main runs its g - 1 generations and ends with c = g; it does not
\* stop in an exception.
C7_RunsEveryGeneration ==
    (g >= 1 /\ k % 2 = 0 /\ k >= 2 /\ ValidBoard) =>
        /\ pc # "Crashed"
        /\ pc = "Done" => c = g

\* C10: print_pentomino completes without indexing the glyph list out of
\* range, however many identifiers the candidate shows.
C10_RenderingCompletes ==
    err # "IndexError: print_pentomino"

====
